---------------------------- MODULE Spec2Model ----------------------------
(***************************************************************************)
(* Orthorectification of an EMIT granule as the notebook                   *)
(* python/how-tos/How_to_Orthorectify.ipynb performs it: the GLT stacking  *)
(* cell, the 'Build Output Dataset' cell (the remap) and the lat/lon       *)
(* cells.  A notebook cell is one action: it runs to its end or to the     *)
(* exception that stops it, and a cell can be run again at any time.       *)
(*                                                                         *)
(* numpy arrays are functions over 0..n-1, so an index of the model is the *)
(* index of the code.  A float of a GLT layer is a record: a number, NaN   *)
(* or an infinity.  Geographic values are integer multiples of a quantum,  *)
(* and the geotransform coefficients are even multiples, so that 0.5*GT[i] *)
(* is exact (as it is in binary floating point).                           *)
(***************************************************************************)
EXTENDS Integers, FiniteSets, Sequences, TLC

\* Bounds of the model.
OrthoY == 1
OrthoX == 2
Downtrack == 2
Crosstrack == 3
Bands == 2
\* Width of the integers of glt_array (numpy's int is 64 bits wide; the model
\* keeps two's complement wrap-around at a width TLC can count in).
IntBits == 8
\* Runs of the remap cell between two runs of the stacking cell.
MaxRuns == 2

\* Program constants.
GLT_NODATA_VALUE == 0
fill_value == -9999

VARIABLES
    loc_glt_x,   \* loc['glt_x'].data: [ortho_y][ortho_x] floats
    loc_glt_y,   \* loc['glt_y'].data
    ds_array,    \* ds['reflectance'].data: [downtrack][crosstrack][band]
    glt_array,   \* [ortho_y][ortho_x][0..1] integers; <<>> before the stacking cell ran
    valid_glt,   \* [ortho_y][ortho_x] booleans; <<>> before the remap cell ran
    out_ds,      \* [ortho_y][ortho_x][band]; <<>> before the remap cell ran
    exc,         \* the exception that ended the last cell run, or "none"
    runs,        \* runs of the remap cell since the stacking cell last ran
    GT,          \* ds.geotransform: [0..5] coefficients
    lon,         \* <<>> before the 'Create Array' cell ran
    lat,
    geo,         \* "start", "created" (zeros), "filled"
    good_wavelengths,  \* wvl['good_wavelengths'].data: [band] of 0 / 1
    out_xr,      \* the xarray.Dataset built from out_ds; <<>> before it is built
    mask_layers, \* mask_ds['mask'].data: [downtrack][crosstrack][layer]
    flags,       \* the flag-layer indices selected
    mask,        \* the quality mask; <<>> before quality_mask ran
    band_flags,  \* the band flags the mask file's producer packed: [downtrack][crosstrack][band]
    packed,      \* band_mask of the mask file: [downtrack][crosstrack][element]
    bmask,       \* the unpacked band mask; <<>> before band_mask ran
    ds_geo,      \* reflectance of the dataset emit_xarray returned; <<>> before
    fp,          \* reflectance stored in the granule file
    same_array,  \* out_xr['reflectance'].data is the array out_ds names
    kernels,     \* two kernels that each run the remap on names of their own
    dst,         \* the local files, one per url: whether it exists, the chunks written
    download,    \* the download cell: its position, its url, the files it skipped, the GETs made
    points_stream,  \* points_stream.data: <<>> for None, or its x, y and id columns
    click_dmap   \* what click_spectra last returned: the spectra of its overlay

vars == <<loc_glt_x, loc_glt_y, ds_array, glt_array, valid_glt, out_ds, exc, runs,
          GT, lon, lat, geo,
          good_wavelengths, out_xr, mask_layers, flags, mask, band_flags, packed, bmask,
          ds_geo, fp,
          same_array, kernels, dst, download, points_stream, click_dmap>>
geoVars == <<GT, lon, lat, geo>>
maskVars == <<mask_layers, flags, mask, band_flags, packed, bmask>>
bandVars == <<good_wavelengths, out_xr, ds_geo, fp>>
remapVars == <<loc_glt_x, loc_glt_y, glt_array, valid_glt, out_ds, runs>>
sessionVars == <<kernels, dst, download, points_stream, click_dmap>>

-----------------------------------------------------------------------------
\* Arrays

Range(n) == 0 .. (n - 1)
Size(a) == Cardinality(DOMAIN a)
Shape2(a) == <<Size(a), IF Size(a) = 0 THEN 0 ELSE Size(a[0])>>
Shape3(a) ==
    <<Size(a),
      IF Size(a) = 0 THEN 0 ELSE Size(a[0]),
      IF Size(a) = 0 \/ Size(a[0]) = 0 THEN 0 ELSE Size(a[0][0])>>
Cells(a) == {<<y, x>> : y \in DOMAIN a, x \in DOMAIN a[0]}

\* Floats of the GLT layers
Num(v) == [k |-> "num", v |-> v]
NaN == [k |-> "nan", v |-> 0]
PosInf == [k |-> "inf", v |-> 1]
NegInf == [k |-> "inf", v |-> -1]
IsFinite(f) == f.k = "num"

\* Integers of glt_array
IntMax == 2 ^ (IntBits - 1) - 1
IntMin == -(2 ^ (IntBits - 1))
Wrap(v) == ((v - IntMin) % (2 ^ IntBits)) + IntMin


-----------------------------------------------------------------------------
\* The granule as loaded: the inputs the cells read

\* A GLT layer entry as the file reader hands it over: NaN, an infinity, or an
\* integer-valued float from just below the no-data sentinel to just above the raw
\* axis of size n.
GltFloats(n) == {NaN, PosInf, NegInf} \cup {Num(v) : v \in -1 .. (n + 1)}
GltInts(n) == {Num(v) : v \in -1 .. (n + 1)}

\* The GLT layers: every cell holds the pair base, but for one cell, which holds alt.
GltLayer(base, alt, at, i) ==
    [y \in Range(OrthoY) |-> [x \in Range(OrthoX) |->
        IF <<y, x>> = at THEN alt[i] ELSE base[i]]]

\* A cube whose every value names its place, and that cube with the fill value
\* stored at one place.
RampCube ==
    [d \in Range(Downtrack) |-> [c \in Range(Crosstrack) |-> [b \in Range(Bands) |->
        100 * (d + 1) + 10 * (c + 1) + b]]]
RawCubes ==
    {RampCube, [RampCube EXCEPT ![0][0][0] = fill_value]}

-----------------------------------------------------------------------------
\* glt_array = np.nan_to_num(np.stack([glt_x, glt_y], axis=-1), nan=0).astype(int)

\* np.nan_to_num(f, nan=GLT_NODATA_VALUE): NaN becomes nan; an infinity becomes the
\* largest (smallest) finite float, here "big".
NoNanToNum(f) ==
    IF f.k = "inf" THEN [k |-> "big", v |-> f.v] ELSE f
NanToNum(f) ==
    IF f.k = "nan" THEN Num(GLT_NODATA_VALUE)
    ELSE IF f.k = "inf" THEN [k |-> "big", v |-> f.v]
    ELSE f

\* .astype(int): an integer-valued float is that integer. A float beyond the integer
\* range (and NaN) has no defined conversion: the build decides, ub is its choice for
\* a float above the range (x86 gives the smallest integer, a saturating conversion
\* the largest); below the range both give the smallest integer.
AsType(f, ub) ==
    IF f.k = "num" THEN f.v
    ELSE IF f.k = "big" /\ f.v > 0 THEN ub
    ELSE IntMin

StackGlt(gx, gy, ub) ==
    [y \in DOMAIN gx |-> [x \in DOMAIN gx[y] |-> [i \in 0 .. 1 |->
        AsType(NanToNum(IF i = 0 THEN gx[y][x] ELSE gy[y][x]), ub)]]]

-----------------------------------------------------------------------------
\* The 'Build Output Dataset' cell

\* np.zeros((glt_array.shape[0], glt_array.shape[1], ds_array.shape[-1])) + fill_value
AllocRawShape(g, ds) ==
    [y \in DOMAIN ds |-> [x \in DOMAIN ds[0] |-> [b \in DOMAIN ds[0][0] |->
        0 + fill_value]]]
AllocOut(g, ds) ==
    [y \in DOMAIN g |-> [x \in DOMAIN g[0] |-> [b \in DOMAIN ds[0][0] |->
        0 + fill_value]]]

\* np.all(glt_array != GLT_NODATA_VALUE, axis=-1)
AnyValidGlt(g) ==
    [y \in DOMAIN g |-> [x \in DOMAIN g[y] |->
        \E i \in DOMAIN g[y][x] : g[y][x][i] # GLT_NODATA_VALUE]]
ValidGlt(g) ==
    [y \in DOMAIN g |-> [x \in DOMAIN g[y] |->
        \A i \in DOMAIN g[y][x] : g[y][x][i] # GLT_NODATA_VALUE]]

\* glt_array[valid_glt] -= 1, in the integers of the array
AdjustAll(g, valid) ==
    [y \in DOMAIN g |-> [x \in DOMAIN g[y] |-> [i \in DOMAIN g[y][x] |->
        Wrap(g[y][x][i] - 1)]]]
NoAdjust(g, valid) == g
AdjustOneBased(g, valid) ==
    [y \in DOMAIN g |-> [x \in DOMAIN g[y] |->
        IF valid[y][x]
        THEN [i \in DOMAIN g[y][x] |-> Wrap(g[y][x][i] - 1)]
        ELSE g[y][x]]]

\* numpy's index into an axis of size n: -n .. n-1, a negative one counts from the end
InBounds(i, n) == -n <= i /\ i < n
NormIndex(i, n) == IF i < 0 THEN i + n ELSE i

\* ds_array[glt_array[valid_glt, 1], glt_array[valid_glt, 0], :] can be evaluated
IndexOk(g, valid, ds) ==
    \A c \in Cells(g) :
        valid[c[1]][c[2]] =>
            /\ InBounds(g[c[1]][c[2]][1], Size(ds))
            /\ InBounds(g[c[1]][c[2]][0], Size(ds[0]))

\* ds_array[gy, gx, :] of one cell
Pixel(g, ds, y, x) ==
    ds[NormIndex(g[y][x][1], Size(ds))][NormIndex(g[y][x][0], Size(ds[0]))]

\* out_ds[valid_glt, :] = ds_array[glt_array[valid_glt, 1], glt_array[valid_glt, 0], :]
GatherFirstBand(out, g, valid, ds) ==
    [y \in DOMAIN out |-> [x \in DOMAIN out[y] |->
        IF valid[y][x]
        THEN [b \in DOMAIN out[y][x] |->
                 IF b = 0 THEN Pixel(g, ds, y, x)[b] ELSE out[y][x][b]]
        ELSE out[y][x]]]
Gather(out, g, valid, ds) ==
    [y \in DOMAIN out |-> [x \in DOMAIN out[y] |->
        IF valid[y][x] THEN Pixel(g, ds, y, x) ELSE out[y][x]]]

-----------------------------------------------------------------------------
\* The cells of the remap

\* np.stack raises ValueError unless all input arrays have the same shape
Crop(a, sh) == [y \in Range(sh[1]) |-> [x \in Range(sh[2]) |-> a[y][x]]]
Least(m, n) == IF m < n THEN m ELSE n
CommonShape(a, b) ==
    <<Least(Shape2(a)[1], Shape2(b)[1]), Least(Shape2(a)[2], Shape2(b)[2])>>
StackCropped(gx, gy, ub) ==
    [exc |-> "none",
     glt |-> StackGlt(Crop(gx, CommonShape(gx, gy)), Crop(gy, CommonShape(gx, gy)), ub)]
StackChecked(gx, gy, ub) ==
    IF Shape2(gx) = Shape2(gy)
    THEN [exc |-> "none", glt |-> StackGlt(gx, gy, ub)]
    ELSE [exc |-> "ValueError", glt |-> <<>>]

\* glt_array = np.nan_to_num(np.stack(...)).astype(int); when np.stack raises, the
\* assignment does not happen.
StackCell ==
    /\ \E ub \in {IntMin, IntMax} :
           LET r == StackChecked(loc_glt_x, loc_glt_y, ub)
           IN  /\ exc' = r.exc
               /\ IF r.exc = "none"
                  THEN glt_array' = r.glt /\ runs' = 0
                  ELSE UNCHANGED <<glt_array, runs>>
    /\ UNCHANGED <<loc_glt_x, loc_glt_y, ds_array, valid_glt, out_ds>>
    /\ UNCHANGED <<geoVars, maskVars, bandVars>>
    /\ UNCHANGED <<same_array, sessionVars>>

\* # Build Output Dataset: the cell stops at the gather when an index is out of
\* bounds (or the boolean index does not fit out_ds), with out_ds allocated,
\* valid_glt computed and glt_array already adjusted. With no glt_array in the
\* kernel its first statement raises NameError.
RemapCell ==
    /\ runs < MaxRuns
    /\ IF glt_array = <<>>
       THEN /\ exc' = "NameError"
            /\ UNCHANGED <<glt_array, valid_glt, out_ds, runs, same_array>>
       ELSE LET out0 == AllocOut(glt_array, ds_array)
                valid == ValidGlt(glt_array)
                g1 == AdjustOneBased(glt_array, valid)
            IN  /\ valid_glt' = valid
                /\ glt_array' = g1
                /\ IF Shape2(out0) = Shape2(valid) /\ IndexOk(g1, valid, ds_array)
                   THEN /\ out_ds' = Gather(out0, g1, valid, ds_array)
                        /\ exc' = "none"
                   ELSE /\ out_ds' = out0
                        /\ exc' = "IndexError"
                /\ runs' = runs + 1
                /\ same_array' = FALSE
    /\ UNCHANGED <<loc_glt_x, loc_glt_y, ds_array>>
    /\ UNCHANGED <<geoVars, maskVars, bandVars>>
    /\ UNCHANGED sessionVars

\* Chunks of the granule file as the download cell writes it
Chunks == 2

\* The granule file is on disk, whole; no dataset was built from out_ds, no second
\* kernel runs, the download cell was not run and no point was drawn
NoOtherState ==
    /\ same_array = FALSE
    /\ kernels = <<>>
    /\ dst = <<[exists |-> TRUE, chunks |-> Chunks]>>
    /\ download = [pc |-> "idle", url |-> 1, skipped |-> {}, gets |-> <<0>>]
    /\ points_stream = <<>>
    /\ click_dmap = <<>>

\* No mask file is open
NoMaskFile ==
    /\ mask_layers = <<>>
    /\ flags = {}
    /\ mask = <<>>
    /\ band_flags = <<>>
    /\ packed = <<>>
    /\ bmask = <<>>

\* The kernel after loc and ds_array were read from the granule
Init ==
    /\ \E base \in GltInts(Crosstrack) \X GltInts(Downtrack),
          alt \in GltFloats(Crosstrack) \X GltFloats(Downtrack),
          at \in Range(OrthoY) \X Range(OrthoX) :
           /\ loc_glt_x = GltLayer(base, alt, at, 1)
           /\ loc_glt_y = GltLayer(base, alt, at, 2)
    /\ ds_array \in RawCubes
    /\ glt_array = <<>>
    /\ valid_glt = <<>>
    /\ out_ds = <<>>
    /\ exc = "none"
    /\ NoOtherState
    /\ runs = 0
    /\ GT = [i \in 0 .. 5 |-> 0]
    /\ lon = <<>>
    /\ lat = <<>>
    /\ geo = "start"
    /\ NoMaskFile
    /\ good_wavelengths = [b \in Range(Bands) |-> 1]
    /\ out_xr = <<>>
    /\ ds_geo = <<>>
    /\ fp = ds_array

Next ==
    \/ StackCell
    \/ RemapCell

Spec == Init /\ [][Next]_vars

\* The kernel after loc was read from a granule whose glt_x and glt_y may differ in
\* shape
StackShapes == (1 .. (OrthoY + 1)) \X (1 .. OrthoX)
InitStack ==
    /\ \E sx \in StackShapes, sy \in StackShapes,
          vx \in 0 .. Crosstrack, vy \in 0 .. Downtrack :
           /\ loc_glt_x = [y \in Range(sx[1]) |-> [x \in Range(sx[2]) |-> Num(vx)]]
           /\ loc_glt_y = [y \in Range(sy[1]) |-> [x \in Range(sy[2]) |-> Num(vy)]]
    /\ ds_array \in RawCubes
    /\ glt_array = <<>>
    /\ valid_glt = <<>>
    /\ out_ds = <<>>
    /\ exc = "none"
    /\ NoOtherState
    /\ runs = 0
    /\ GT = [i \in 0 .. 5 |-> 0]
    /\ lon = <<>>
    /\ lat = <<>>
    /\ geo = "start"
    /\ NoMaskFile
    /\ good_wavelengths = [b \in Range(Bands) |-> 1]
    /\ out_xr = <<>>
    /\ ds_geo = <<>>
    /\ fp = ds_array

NextStack ==
    \/ StackCell
    \/ RemapCell

SpecStack == InitStack /\ [][NextStack]_vars

-----------------------------------------------------------------------------
\* Properties of the remap

\* A step of the remap cell, and one that ran to its end
RemapStep == runs' = runs + 1
RemapDone == RemapStep /\ exc' = "none"

\* The cell's 1-based pair selects a pixel of the raw grid
InRawGrid(pair, ds) ==
    /\ pair[0] \in 1 .. Size(ds[0])
    /\ pair[1] \in 1 .. Size(ds)

FillVector(ds) == [b \in DOMAIN ds[0][0] |-> fill_value]

\* The GLT layers as the data model has them: every entry is the no-data sentinel or
\* a 1-based index of its raw axis.
WellFormedGlt ==
    \A c \in Cells(loc_glt_x) :
        /\ loc_glt_x[c[1]][c[2]] \in {Num(v) : v \in 0 .. Size(ds_array[0])}
        /\ loc_glt_y[c[1]][c[2]] \in {Num(v) : v \in 0 .. Size(ds_array)}

\* The GLT layers hold no NaN, no infinity and no negative number
NonNegativeGlt ==
    \A c \in Cells(loc_glt_x) :
        /\ loc_glt_x[c[1]][c[2]].k = "num" /\ loc_glt_x[c[1]][c[2]].v >= 0
        /\ loc_glt_y[c[1]][c[2]].k = "num" /\ loc_glt_y[c[1]][c[2]].v >= 0

\* C1: a remap that ran to its end leaves, in every ortho cell whose GLT pair as the
\* remap found it is non-zero and selects a pixel of the raw grid, and in every band,
\* the value RawCube[glt_y - 1, glt_x - 1, band].
C1_ValidCellsCopyRaw ==
    [][RemapDone =>
        \A c \in Cells(glt_array) :
            LET pair == glt_array[c[1]][c[2]]
            IN  InRawGrid(pair, ds_array) =>
                    \A b \in DOMAIN ds_array[0][0] :
                        out_ds'[c[1]][c[2]][b]
                            = ds_array[pair[1] - 1][pair[0] - 1][b]]_vars

\* A first remap ran to its end and copied a raw pixel, other than pixel [0,0], whose
\* two indices differ, into an ortho cell.
C1_Witness ==
    /\ runs = 1
    /\ exc = "none"
    /\ \E c \in Cells(glt_array) :
           LET pair == glt_array[c[1]][c[2]]
           IN  /\ valid_glt[c[1]][c[2]]
               /\ pair[0] \in 1 .. (Size(ds_array[0]) - 1)
               /\ pair[1] \in 0 .. (Size(ds_array) - 1)
               /\ pair[0] # pair[1]
               /\ out_ds[c[1]][c[2]] = ds_array[pair[1]][pair[0]]
               /\ loc_glt_x[c[1]][c[2]] = Num(pair[0] + 1)
               /\ loc_glt_y[c[1]][c[2]] = Num(pair[1] + 1)

\* C2: after a remap, ended by an error or not, every ortho cell whose glt_x or glt_y
\* was 0 when the remap started, one of the two being enough, holds fill_value in
\* every band.
C2_NoDataCellsHoldFill ==
    [][RemapStep =>
        \A c \in Cells(glt_array) :
            LET pair == glt_array[c[1]][c[2]]
            IN  (pair[0] = GLT_NODATA_VALUE \/ pair[1] = GLT_NODATA_VALUE) =>
                    \A b \in DOMAIN ds_array[0][0] :
                        out_ds'[c[1]][c[2]][b] = fill_value]_vars

\* A remap ran to its end with a cell of which exactly one coordinate is 0, which
\* holds the fill value, beside a cell that holds a raw pixel.
C2_Witness ==
    /\ WellFormedGlt
    /\ runs = 1
    /\ exc = "none"
    /\ \E c, e \in Cells(glt_array) :
           /\ (glt_array[c[1]][c[2]][0] = 0) # (glt_array[c[1]][c[2]][1] = 0)
           /\ ~valid_glt[c[1]][c[2]]
           /\ out_ds[c[1]][c[2]] = FillVector(ds_array)
           /\ valid_glt[e[1]][e[2]]
           /\ out_ds[e[1]][e[2]] # FillVector(ds_array)

\* C3: a first remap over a GLT with a cell whose two entries are non-zero and one
\* of which, less 1, is no index of its raw axis (a negative entry included) ends in
\* an IndexError.
C3_OutOfRangeIsFatal ==
    [][(RemapStep /\ runs = 0
        /\ \E c \in Cells(glt_array) :
               /\ ValidGlt(glt_array)[c[1]][c[2]]
               /\ ~InRawGrid(glt_array[c[1]][c[2]], ds_array))
       => exc' = "IndexError"]_vars

\* C4: after the stacking cell, every entry of glt_array made from a non-finite
\* entry of glt_x or glt_y (NaN or an infinity) is the no-data sentinel 0.
C4_NonFiniteBecomesNoData ==
    (glt_array # <<>> /\ runs = 0) =>
        \A c \in Cells(glt_array) :
            /\ ~IsFinite(loc_glt_x[c[1]][c[2]]) => glt_array[c[1]][c[2]][0] = 0
            /\ ~IsFinite(loc_glt_y[c[1]][c[2]]) => glt_array[c[1]][c[2]][1] = 0

IsNoDataCell(c) ==
    /\ glt_array # <<>> => ~ValidGlt(glt_array)[c[1]][c[2]]
    /\ valid_glt # <<>> => ~valid_glt[c[1]][c[2]]
    /\ out_ds # <<>> => out_ds[c[1]][c[2]] = FillVector(ds_array)

\* C4 as amended: every NaN entry of glt_x or glt_y is the no-data sentinel 0 in
\* glt_array, so that its cell is no valid cell and holds the fill value after every
\* remap; an infinite entry is not 0 in the stacked array, but the smallest or the
\* largest integer.
C4_NanBecomesNoData ==
    \A c \in Cells(loc_glt_x) :
        /\ loc_glt_x[c[1]][c[2]] = NaN =>
               /\ glt_array # <<>> => glt_array[c[1]][c[2]][0] = GLT_NODATA_VALUE
               /\ IsNoDataCell(c)
        /\ loc_glt_y[c[1]][c[2]] = NaN =>
               /\ glt_array # <<>> => glt_array[c[1]][c[2]][1] = GLT_NODATA_VALUE
               /\ IsNoDataCell(c)
        /\ (glt_array # <<>> /\ runs = 0) =>
               /\ loc_glt_x[c[1]][c[2]].k = "inf" =>
                      glt_array[c[1]][c[2]][0] \in {IntMin, IntMax}
               /\ loc_glt_y[c[1]][c[2]].k = "inf" =>
                      glt_array[c[1]][c[2]][1] \in {IntMin, IntMax}

\* A remap ran to its end over a GLT with a cell whose glt_x is NaN and whose glt_y
\* selects a raw row: the cell holds the fill value beside a cell holding a raw pixel.
C4_Witness ==
    /\ runs = 1
    /\ exc = "none"
    /\ \E c, e \in Cells(glt_array) :
           /\ loc_glt_x[c[1]][c[2]] = NaN
           /\ loc_glt_y[c[1]][c[2]] \in {Num(v) : v \in 1 .. Size(ds_array)}
           /\ glt_array[c[1]][c[2]][0] = 0
           /\ out_ds[c[1]][c[2]] = FillVector(ds_array)
           /\ out_ds[e[1]][e[2]] # FillVector(ds_array)

\* C5: over a well-formed GLT, a remap run again, after a remap that ran to its end
\* and with no cell run in between, runs to its end with the same out_ds.
C5_SecondRemapSameOutput ==
    [][(RemapStep /\ runs >= 1 /\ exc = "none" /\ WellFormedGlt) =>
        (exc' = "none" /\ out_ds' = out_ds)]_vars

\* C6: a remap over a well-formed GLT changes neither the GLT index array nor the
\* raw cube.
C6_RemapKeepsInputs ==
    [][(RemapStep /\ WellFormedGlt) =>
        (glt_array' = glt_array /\ ds_array' = ds_array)]_vars

\* C7: after a remap, every ortho cell holds the band vector of one raw pixel or the
\* fill value in every band, and two cells whose GLT pairs were the same when the
\* remap started hold the same band vector.
C7_NoBlending ==
    [][RemapStep =>
        /\ \A c \in Cells(glt_array) :
               \/ out_ds'[c[1]][c[2]] = FillVector(ds_array)
               \/ \E d \in DOMAIN ds_array, k \in DOMAIN ds_array[0] :
                      out_ds'[c[1]][c[2]] = ds_array[d][k]
        /\ \A c, e \in Cells(glt_array) :
               glt_array[c[1]][c[2]] = glt_array[e[1]][e[2]] =>
                   out_ds'[c[1]][c[2]] = out_ds'[e[1]][e[2]]]_vars

\* A remap ran to its end with two cells of the same GLT pair holding the same raw
\* pixel (many ortho cells to one raw pixel).
C7_Witness ==
    /\ WellFormedGlt
    /\ runs = 1
    /\ exc = "none"
    /\ \E c, e \in Cells(glt_array) :
           /\ c # e
           /\ glt_array[c[1]][c[2]] = glt_array[e[1]][e[2]]
           /\ valid_glt[c[1]][c[2]]
           /\ out_ds[c[1]][c[2]] = out_ds[e[1]][e[2]]
           /\ out_ds[c[1]][c[2]] # FillVector(ds_array)
           /\ \E d \in DOMAIN ds_array, k \in DOMAIN ds_array[0] :
                  out_ds[c[1]][c[2]] = ds_array[d][k]

\* C8: out_ds has the shape [Y, X, B], Y and X those of the GLT arrays and B the
\* length of the raw cube's band axis, and every axis is indexed from 0.
C8_OutputShape ==
    out_ds # <<>> =>
        /\ Shape3(out_ds)
               = <<Shape2(loc_glt_x)[1], Shape2(loc_glt_x)[2], Shape3(ds_array)[3]>>
        /\ Shape2(out_ds) = Shape2(glt_array)
        /\ DOMAIN out_ds = Range(Size(out_ds))
        /\ \A y \in DOMAIN out_ds :
               /\ DOMAIN out_ds[y] = Range(Shape3(out_ds)[2])
               /\ \A x \in DOMAIN out_ds[y] :
                      DOMAIN out_ds[y][x] = Range(Shape3(out_ds)[3])

\* A remap ran to its end over a GLT, smaller than the raw grid on both axes, with a
\* valid cell and a no-data cell.
C8_Witness ==
    /\ WellFormedGlt
    /\ runs = 1
    /\ exc = "none"
    /\ Shape2(out_ds) # Shape2(ds_array)
    /\ \E c, e \in Cells(glt_array) :
           valid_glt[c[1]][c[2]] /\ ~valid_glt[e[1]][e[2]]

\* C12: when glt_x and glt_y differ in shape, every run of the stacking cell or of
\* the remap cell ends in an error, and no GLT array, validity mask or output array
\* is ever created.
C12_ShapeMismatchIsFatal ==
    [][Shape2(loc_glt_x) # Shape2(loc_glt_y) =>
          /\ exc' \in {"ValueError", "NameError"}
          /\ glt_array' = <<>>
          /\ valid_glt' = <<>>
          /\ out_ds' = <<>>]_vars

\* With glt_x and glt_y of the same number of elements and different shapes, the
\* remap cell was run and failed with nothing written.
C12_Witness ==
    /\ Shape2(loc_glt_x) # Shape2(loc_glt_y)
    /\ Shape2(loc_glt_x)[1] * Shape2(loc_glt_x)[2]
           = Shape2(loc_glt_y)[1] * Shape2(loc_glt_y)[2]
    /\ exc = "NameError"
    /\ out_ds = <<>>

\* C13: whenever the remap cell has ended in an error, no output array, fill-only or
\* partly written, is left in the kernel.  (Stated for GLT layers whose entries are
\* all finite and non-negative.)
C13_NoOutputAfterError ==
    (NonNegativeGlt /\ exc # "none") => out_ds = <<>>

-----------------------------------------------------------------------------
\* Masking of bands, and emit_xarray

\* np.nan in an array of floats: a value of its own, equal to no number of a cube
np_nan == -7777
IsNan(v) == v = np_nan

\* A boolean index along the band axis must have the length of that axis
BandIndexOk(a, gw) == DOMAIN gw = DOMAIN a[0][0]

\* a[:, :, good_wavelengths == 0] = np.nan
BlankGoodBands(a, gw) ==
    [y \in DOMAIN a |-> [x \in DOMAIN a[y] |-> [b \in DOMAIN a[y][x] |->
        IF gw[b] # 0 THEN np_nan ELSE a[y][x][b]]]]
BlankBands(a, gw) ==
    [y \in DOMAIN a |-> [x \in DOMAIN a[y] |-> [b \in DOMAIN a[y][x] |->
        IF gw[b] = 0 THEN np_nan ELSE a[y][x][b]]]]

\* ds['reflectance'].data[:,:,ds['good_wavelengths'].data==0] = np.nan, in place in
\* the array of the opened dataset
MaskRawBands ==
    /\ IF BandIndexOk(ds_array, good_wavelengths)
       THEN /\ ds_array' = BlankBands(ds_array, good_wavelengths)
            /\ exc' = "none"
       ELSE /\ exc' = "IndexError"
            /\ UNCHANGED ds_array
    /\ UNCHANGED <<remapVars, geoVars, maskVars, bandVars>>
    /\ UNCHANGED <<same_array, sessionVars>>

\* ds_geo['reflectance'].data[:,:,ds_geo['good_wavelengths'].data==0] = np.nan
MaskOrthoBands ==
    /\ ds_geo # <<>>
    /\ IF BandIndexOk(ds_geo, good_wavelengths)
       THEN /\ ds_geo' = BlankBands(ds_geo, good_wavelengths)
            /\ exc' = "none"
       ELSE /\ exc' = "IndexError"
            /\ UNCHANGED ds_geo
    /\ UNCHANGED <<remapVars, geoVars, maskVars, ds_array, good_wavelengths, out_xr, fp>>
    /\ UNCHANGED <<same_array, sessionVars>>

\* emit_tools: every pixel the quality mask flags is set to NaN in all bands
ApplyQMaskFirstBand(raw, m) ==
    [d \in DOMAIN raw |-> [c \in DOMAIN raw[d] |-> [b \in DOMAIN raw[d][c] |->
        IF m[d][c] /\ b = 0 THEN np_nan ELSE raw[d][c][b]]]]
ApplyQMask(raw, m) ==
    [d \in DOMAIN raw |-> [c \in DOMAIN raw[d] |-> [b \in DOMAIN raw[d][c] |->
        IF m[d][c] THEN np_nan ELSE raw[d][c][b]]]]

\* emit_tools: every valid cell's 0-based pair lies in the raw grid
InRawBounds(g, valid, raw) ==
    \A c \in Cells(g) :
        valid[c[1]][c[2]] =>
            /\ g[c[1]][c[2]][1] \in Range(Size(raw))
            /\ g[c[1]][c[2]][0] \in Range(Size(raw[0]))

\* emit_tools: the remap of the raw array by the granule's GLT
OrthoXr(raw, gx, gy, ub) ==
    LET st == StackChecked(gx, gy, ub)
    IN  IF st.exc # "none"
        THEN [exc |-> "ConfigurationError", data |-> <<>>]
        ELSE LET valid == ValidGlt(st.glt)
                 g1 == AdjustOneBased(st.glt, valid)
             IN  IF InRawBounds(g1, valid, raw)
                 THEN [exc |-> "none",
                       data |-> Gather(AllocOut(st.glt, raw), g1, valid, raw)]
                 ELSE [exc |-> "DataCorruptionError", data |-> <<>>]

\* emit_tools.emit_xarray(fp, ortho, qmask): the quality mask, when one is passed
\* (qmask # <<>>), is applied to the raw array, and the remap follows when ortho is set
EmitXarrayUnchecked(raw, gx, gy, qmask, ortho, ub) ==
    LET masked == IF qmask = <<>> \/ Shape2(qmask) # Shape2(raw)
                  THEN raw ELSE ApplyQMask(raw, qmask)
    IN  IF ortho
        THEN OrthoXr(masked, gx, gy, ub)
        ELSE [exc |-> "none", data |-> masked]
EmitXarray(raw, gx, gy, qmask, ortho, ub) ==
    IF qmask # <<>> /\ Shape2(qmask) # Shape2(raw)
    THEN [exc |-> "UsageError", data |-> <<>>]
    ELSE LET masked == IF qmask = <<>> THEN raw ELSE ApplyQMask(raw, qmask)
         IN  IF ortho
             THEN OrthoXr(masked, gx, gy, ub)
             ELSE [exc |-> "none", data |-> masked]

\* name = emit_xarray(...): the name is bound when the call returns
EmitCall(qmask, ortho) ==
    /\ \E ub \in {IntMin, IntMax} :
           LET r == EmitXarray(fp, loc_glt_x, loc_glt_y, qmask, ortho, ub)
           IN  /\ exc' = r.exc
               /\ ds_geo' = IF r.exc = "none" THEN r.data ELSE ds_geo
    /\ UNCHANGED <<remapVars, geoVars, maskVars, ds_array, good_wavelengths, out_xr, fp>>
    /\ UNCHANGED <<same_array, sessionVars>>

\* ds = emit_tools.emit_xarray(fp, ortho = False)
EmitRawCell == EmitCall(<<>>, FALSE)

\* ds_geo = emit_xarray(fp, ortho=True)
EmitOrthoCell == EmitCall(<<>>, TRUE)

\* GLT layers of the granules the masking cells are run on: every cell holds the
\* pair base, but for one cell, which holds no data, the first raw pixel, or a
\* column past the raw grid.
SmallAlts == {<<Num(0), Num(0)>>, <<Num(1), Num(1)>>, <<Num(Crosstrack + 1), Num(1)>>}
SmallBases == {<<Num(x), Num(y)>> : x \in 0 .. Crosstrack, y \in 0 .. Downtrack}

\* The kernel after ds, wvl and loc were read from the granule
InitMask ==
    /\ \E base \in SmallBases, alt \in SmallAlts,
          at \in Range(OrthoY) \X Range(OrthoX) :
           /\ loc_glt_x = GltLayer(base, alt, at, 1)
           /\ loc_glt_y = GltLayer(base, alt, at, 2)
    /\ ds_array \in RawCubes
    /\ glt_array = <<>>
    /\ valid_glt = <<>>
    /\ out_ds = <<>>
    /\ exc = "none"
    /\ NoOtherState
    /\ runs = 0
    /\ GT = [i \in 0 .. 5 |-> 0]
    /\ lon = <<>>
    /\ lat = <<>>
    /\ geo = "start"
    /\ NoMaskFile
    /\ good_wavelengths \in [Range(Bands) -> {0, 1}]
    /\ out_xr = <<>>
    /\ ds_geo = <<>>
    /\ fp = ds_array

NextMask ==
    \/ MaskRawBands
    \/ EmitRawCell
    \/ EmitOrthoCell
    \/ MaskOrthoBands

SpecMask == InitMask /\ [][NextMask]_vars

\* The array a is array b with the bands good_wavelengths marks 0 set to NaN at every
\* pixel and every other band as in b.
BadBandsBlanked(a, b) ==
    /\ Shape3(a) = Shape3(b)
    /\ \A c \in Cells(a) : \A n \in DOMAIN a[c[1]][c[2]] :
           /\ good_wavelengths[n] = 0 => IsNan(a[c[1]][c[2]][n])
           /\ good_wavelengths[n] = 1 => a[c[1]][c[2]][n] = b[c[1]][c[2]][n]

\* C14: the good-wavelength masking cells, on the raw grid and on the ortho grid,
\* leave NaN in every band good_wavelengths marks 0, at every pixel of the grid
\* (cells without a valid GLT pair included), and leave every band marked 1 as it
\* was before the masking.
C14_BadBandsAreNaN ==
    [][/\ MaskRawBands => BadBandsBlanked(ds_array', ds_array)
       /\ MaskOrthoBands => BadBandsBlanked(ds_geo', ds_geo)]_vars

\* An orthorectified array with a no-data cell and a copied cell was masked: one
\* band is NaN in both cells, another band still holds the fill value in the one
\* and a raw value in the other.
C14_Witness ==
    /\ ds_geo # <<>>
    /\ Shape2(ds_geo) = Shape2(loc_glt_x)
    /\ \E m, n \in DOMAIN good_wavelengths :
           /\ good_wavelengths[m] = 0
           /\ good_wavelengths[n] = 1
           /\ \E c, e \in Cells(ds_geo) :
                  /\ loc_glt_x[c[1]][c[2]] = Num(0)
                  /\ loc_glt_x[e[1]][e[2]] # Num(0)
                  /\ loc_glt_y[e[1]][e[2]] # Num(0)
                  /\ IsNan(ds_geo[c[1]][c[2]][m])
                  /\ IsNan(ds_geo[e[1]][e[2]][m])
                  /\ ds_geo[c[1]][c[2]][n] = fill_value
                  /\ ds_geo[e[1]][e[2]][n] \notin {fill_value, np_nan}

\* C19: whatever masking cells have run, the raw cube of the opened dataset holds
\* the values that were loaded from the granule.
C19_MaskingKeepsRawCube ==
    ds_array = fp

-----------------------------------------------------------------------------
\* The decoders of the mask file

\* Number of layers of the mask variable, of packed elements of a pixel's band mask
\* (36 in the granules) and of bits of a packed element (8 in the granules).
MaskLayers == 3
PackedElems == 2
ElemBits == 2

\* The sensor's band count: all bits of the packed elements but the surplus ones
\* (285 of 36 * 8 in the granules)
SensorBands == PackedElems * ElemBits - 1

\* emit_tools.quality_mask(fp_mask, flags): the OR of the selected layers, a layer
\* flagging a pixel where it is > 0
QualityMaskAll(layers, S) ==
    [d \in DOMAIN layers |-> [c \in DOMAIN layers[d] |->
        \A i \in S : layers[d][c][i] > 0]]
QualityMask(layers, S) ==
    [d \in DOMAIN layers |-> [c \in DOMAIN layers[d] |->
        \E i \in S : layers[d][c][i] > 0]]

\* 2^n
RECURSIVE Pow2(_)
Pow2(n) == IF n = 0 THEN 1 ELSE 2 * Pow2(n - 1)

\* Bit j of a packed element, the most significant bit first
BitLsbFirst(e, j) == (e \div Pow2(j)) % 2
Bit(e, j) == (e \div Pow2(ElemBits - 1 - j)) % 2

\* The bits of all packed elements of one pixel, one after the other
UnpackBits(elems) ==
    [n \in Range(Size(elems) * ElemBits) |->
        Bit(elems[n \div ElemBits], n % ElemBits) = 1]

\* emit_tools.band_mask(fp_mask): the unpacked bits of every pixel, cut to the band
\* count
BandMaskUncut(pk, B) ==
    [d \in DOMAIN pk |-> [c \in DOMAIN pk[d] |-> UnpackBits(pk[d][c])]]
BandMask(pk, B) ==
    [d \in DOMAIN pk |-> [c \in DOMAIN pk[d] |->
        [n \in Range(B) |-> UnpackBits(pk[d][c])[n]]]]

\* The packed elements of one pixel's band flags v, as the granule stores them: band
\* n is bit n % ElemBits of element n \div ElemBits, the surplus bits are 0
RECURSIVE ElemValue(_, _, _)
ElemValue(v, e, j) ==
    IF j = ElemBits THEN 0
    ELSE (IF e * ElemBits + j \in DOMAIN v /\ v[e * ElemBits + j]
          THEN Pow2(ElemBits - 1 - j) ELSE 0) + ElemValue(v, e, j + 1)
PackVector(v) == [e \in Range(PackedElems) |-> ElemValue(v, e, 0)]
Pack(pattern) ==
    [d \in DOMAIN pattern |-> [c \in DOMAIN pattern[d] |-> PackVector(pattern[d][c])]]

\* flags = [...]; mask = emit_tools.quality_mask(fp_mask, flags)
QualityMaskCell ==
    /\ mask_layers # <<>>
    /\ \E S \in SUBSET Range(MaskLayers) :
           /\ flags' = S
           /\ mask' = QualityMask(mask_layers, S)
    /\ exc' = "none"
    /\ UNCHANGED <<remapVars, geoVars, bandVars, ds_array, mask_layers, band_flags, packed, bmask>>
    /\ UNCHANGED <<same_array, sessionVars>>

\* emit_tools.band_mask: a packed array whose pixels do not have the expected number
\* of elements is a data-corruption error
BandMaskPadded(pk, B) ==
    [exc |-> "none",
     data |-> [d \in DOMAIN pk |-> [c \in DOMAIN pk[d] |->
                  [n \in Range(B) |->
                      n < Size(pk[d][c]) * ElemBits /\ UnpackBits(pk[d][c])[n]]]]]
BandMaskChecked(pk, B) ==
    IF \A d \in DOMAIN pk : \A c \in DOMAIN pk[d] : Size(pk[d][c]) = PackedElems
    THEN [exc |-> "none", data |-> BandMask(pk, B)]
    ELSE [exc |-> "DataCorruptionError", data |-> <<>>]

\* bmask = emit_tools.band_mask(fp_mask)
BandMaskCell ==
    /\ packed # <<>>
    /\ LET r == BandMaskChecked(packed, SensorBands)
       IN  /\ exc' = r.exc
           /\ bmask' = IF r.exc = "none" THEN r.data ELSE bmask
    /\ UNCHANGED <<remapVars, geoVars, bandVars, ds_array, mask_layers, flags, mask, band_flags,
                   packed>>
    /\ UNCHANGED <<same_array, sessionVars>>

\* An array over the raw grid that holds base at every pixel but at, where it holds alt
OnePixel(base, alt, at) ==
    [d \in Range(Downtrack) |-> [c \in Range(Crosstrack) |->
        IF <<d, c>> = at THEN alt ELSE base]]

Zeros(n) == [i \in Range(n) |-> 0]
BandFlags == [Range(SensorBands) -> BOOLEAN]
AllBands(f) == [n \in Range(SensorBands) |-> f]

\* The kernel after the granule and its mask file were named: one pixel of the mask
\* file differs from the others, in its mask layers or in its band flags
InitDecode ==
    /\ \E at \in Range(Downtrack) \X Range(Crosstrack) :
           \/ /\ \E base \in {Zeros(MaskLayers), [Zeros(MaskLayers) EXCEPT ![0] = 1]},
                     alt \in [Range(MaskLayers) -> {0, 1, 2}] :
                      mask_layers = OnePixel(base, alt, at)
              /\ band_flags = OnePixel(AllBands(FALSE), AllBands(FALSE), at)
           \/ /\ mask_layers = OnePixel(Zeros(MaskLayers), Zeros(MaskLayers), at)
              /\ \E v \in BandFlags :
                     band_flags = OnePixel(AllBands(FALSE), v, at)
    /\ packed = Pack(band_flags)
    /\ flags = {}
    /\ mask = <<>>
    /\ bmask = <<>>
    /\ \E base \in {<<Num(1), Num(1)>>} :
           /\ loc_glt_x = GltLayer(base, base, <<0, 0>>, 1)
           /\ loc_glt_y = GltLayer(base, base, <<0, 0>>, 2)
    /\ ds_array = RampCube
    /\ glt_array = <<>>
    /\ valid_glt = <<>>
    /\ out_ds = <<>>
    /\ exc = "none"
    /\ NoOtherState
    /\ runs = 0
    /\ GT = [i \in 0 .. 5 |-> 0]
    /\ lon = <<>>
    /\ lat = <<>>
    /\ geo = "start"
    /\ good_wavelengths = [b \in Range(Bands) |-> 1]
    /\ out_xr = <<>>
    /\ ds_geo = <<>>
    /\ fp = ds_array

NextDecode ==
    \/ QualityMaskCell
    \/ BandMaskCell

SpecDecode == InitDecode /\ [][NextDecode]_vars

\* C16: the quality mask built for the selected set of layers flags a pixel exactly
\* when one of the selected layers is > 0 there; a pixel flagged in one layer only is
\* flagged exactly when that layer is selected; with no layer selected, no pixel is.
C16_QualityMaskIsOr ==
    mask # <<>> =>
        \A d \in Range(Downtrack), c \in Range(Crosstrack) :
            LET on == {i \in Range(MaskLayers) : mask_layers[d][c][i] > 0}
            IN  /\ mask[d][c] = (on \cap flags # {})
                /\ \A i \in Range(MaskLayers) : on = {i} => (mask[d][c] = (i \in flags))
                /\ flags = {} => ~mask[d][c]

\* Two layers are selected; one pixel is flagged in one of them only and a layer
\* that is not selected is > 0 at another pixel, which stays unflagged.
C16_Witness ==
    /\ mask # <<>>
    /\ Cardinality(flags) = 2
    /\ \E p, q \in Range(Downtrack) \X Range(Crosstrack) :
           /\ mask[p[1]][p[2]]
           /\ ~mask[q[1]][q[2]]
           /\ Cardinality({i \in flags : mask_layers[p[1]][p[2]][i] > 0}) = 1
           /\ \E i \in Range(MaskLayers) \ flags : mask_layers[q[1]][q[2]][i] > 0

\* C17: the band mask unpacked from the packed elements that store a pattern of band
\* flags is that pattern, at every pixel and at every band.
C17_BandMaskRoundTrip ==
    (bmask # <<>> /\ packed = Pack(band_flags)) =>
        \A d \in Range(Downtrack), c \in Range(Crosstrack) :
            \A n \in Range(SensorBands) :
                bmask[d][c][n] = band_flags[d][c][n]

\* The band mask was unpacked for a pixel flagged in band 0 and in the last band,
\* which is stored in the last packed element, and not flagged in band 1; the
\* pixel's elements pack exactly those flags, and another pixel has no flag.
C17_Witness ==
    /\ bmask # <<>>
    /\ (SensorBands - 1) \div ElemBits = PackedElems - 1
    /\ \E p, q \in Range(Downtrack) \X Range(Crosstrack) :
           /\ bmask[p[1]][p[2]][0]
           /\ ~bmask[p[1]][p[2]][1]
           /\ bmask[p[1]][p[2]][SensorBands - 1]
           /\ band_flags[p[1]][p[2]][0]
           /\ ~band_flags[p[1]][p[2]][1]
           /\ packed = Pack(band_flags)
           /\ packed[p[1]][p[2]][PackedElems - 1] # 0
           /\ \A n \in Range(SensorBands) : ~bmask[q[1]][q[2]][n]

\* C18: the quality mask has the shape [downtrack, crosstrack] of the mask file's
\* layers, and the band mask the shape [downtrack, crosstrack, band count] on the
\* same two axes, the surplus bits of the packed elements cut off.
C18_DecoderShapes ==
    /\ mask # <<>> =>
           /\ Shape2(mask) = <<Downtrack, Crosstrack>>
           /\ Shape2(mask) = Shape2(mask_layers)
    /\ bmask # <<>> =>
           /\ Shape3(bmask) = <<Downtrack, Crosstrack, SensorBands>>
           /\ Shape2(bmask) = Shape2(packed)
           /\ SensorBands < PackedElems * ElemBits

\* Both masks were built, for a raw grid with more columns than rows; the only
\* flagged pixel of the quality mask is in a column whose index is no row index.
C18_Witness ==
    /\ mask # <<>>
    /\ bmask # <<>>
    /\ Downtrack < Crosstrack
    /\ \E d \in Range(Downtrack), c \in Downtrack .. (Crosstrack - 1) :
           /\ mask[d][c]
           /\ \A e \in Range(Downtrack), f \in Range(Crosstrack) :
                  mask[e][f] => <<e, f>> = <<d, c>>

-----------------------------------------------------------------------------
\* emit_xarray with a quality mask

\* ds = emit_tools.emit_xarray(fp, ortho=True, qmask=mask); with no mask in the
\* kernel the call is not made (NameError)
EmitMaskedOrthoCell ==
    IF mask = <<>>
    THEN /\ exc' = "NameError"
         /\ UNCHANGED <<remapVars, geoVars, maskVars, bandVars, ds_array>>
         /\ UNCHANGED <<same_array, sessionVars>>
    ELSE EmitCall(mask, TRUE)

\* The kernel after the granule and its mask file were named: at most one pixel is
\* flagged, in the first layer of the mask file, or all are; the first cell of the
\* GLT is the one that differs from the others
InitOrch ==
    /\ \E base \in SmallBases, alt \in SmallAlts :
           /\ loc_glt_x = GltLayer(base, alt, <<0, 0>>, 1)
           /\ loc_glt_y = GltLayer(base, alt, <<0, 0>>, 2)
    /\ \E at \in Range(Downtrack) \X Range(Crosstrack),
          base \in {Zeros(MaskLayers)},
          alt \in {Zeros(MaskLayers), [Zeros(MaskLayers) EXCEPT ![0] = 1]} :
           \/ mask_layers = OnePixel(base, alt, at)
           \/ mask_layers = OnePixel(alt, alt, at)
    /\ band_flags = OnePixel(AllBands(FALSE), AllBands(FALSE), <<0, 0>>)
    /\ packed = Pack(band_flags)
    /\ flags = {}
    /\ mask = <<>>
    /\ bmask = <<>>
    /\ ds_array = RampCube
    /\ glt_array = <<>>
    /\ valid_glt = <<>>
    /\ out_ds = <<>>
    /\ exc = "none"
    /\ NoOtherState
    /\ runs = 0
    /\ GT = [i \in 0 .. 5 |-> 0]
    /\ lon = <<>>
    /\ lat = <<>>
    /\ geo = "start"
    /\ good_wavelengths = [b \in Range(Bands) |-> 1]
    /\ out_xr = <<>>
    /\ ds_geo = <<>>
    /\ fp = ds_array

NextOrch ==
    \/ QualityMaskCell
    \/ EmitRawCell
    \/ EmitMaskedOrthoCell

SpecOrch == InitOrch /\ [][NextOrch]_vars

-----------------------------------------------------------------------------
\* The lat/lon cells

\* Bound of the geotransform coefficients drawn.
GeoMax == 2

\* 0.5 * v, v an even multiple of the quantum
Half(v) == v \div 2

\* (GT[0] + 0.5*GT[1]) + x * GT[1], and the same for y with GT[3] and GT[5]
PixelCorner(origin, size, i) == origin + i * size
PixelCentre(origin, size, i) == (origin + Half(size)) + i * size

\* dim_x = loc.glt_x.shape[1]; dim_y = loc.glt_x.shape[0]
dim_x == Shape2(loc_glt_x)[2]
dim_y_swapped == Shape2(loc_glt_x)[2]
dim_y == Shape2(loc_glt_x)[1]

\* lon = np.zeros(dim_x); lat = np.zeros(dim_y)
CreateLatLon ==
    /\ lon' = [x \in Range(dim_x) |-> 0]
    /\ lat' = [y \in Range(dim_y) |-> 0]
    /\ geo' = "created"
    /\ exc' = "none"
    /\ UNCHANGED <<loc_glt_x, loc_glt_y, ds_array, glt_array, valid_glt, out_ds, runs, GT>>
    /\ UNCHANGED <<maskVars, bandVars>>
    /\ UNCHANGED <<same_array, sessionVars>>

\* for x in np.arange(dim_x): lon[x] = ...; for y in np.arange(dim_y): lat[y] = ...
\* GT[2] and GT[4] are not read.
FillLatLon ==
    /\ geo # "start"
    /\ lon' = [x \in Range(dim_x) |-> PixelCentre(GT[0], GT[1], x)]
    /\ lat' = [y \in Range(dim_y) |-> PixelCentre(GT[3], GT[5], y)]
    /\ geo' = "filled"
    /\ exc' = "none"
    /\ UNCHANGED <<loc_glt_x, loc_glt_y, ds_array, glt_array, valid_glt, out_ds, runs, GT>>
    /\ UNCHANGED <<maskVars, bandVars>>
    /\ UNCHANGED <<same_array, sessionVars>>

GeoEven == {2 * k : k \in -GeoMax .. GeoMax}
GeoShapes == (1 .. (OrthoY + 1)) \X (1 .. OrthoX)
Geotransforms ==
    {[i \in 0 .. 5 |-> g[i + 1]] :
        g \in {-2, 6} \X GeoEven \X {0, 2} \X {0, 10} \X {0, 2} \X GeoEven}

\* The kernel after loc and ds were read from the granule and GT = ds.geotransform
InitGeo ==
    /\ \E sh \in GeoShapes :
           /\ loc_glt_x = [y \in Range(sh[1]) |-> [x \in Range(sh[2]) |-> Num(1)]]
           /\ loc_glt_y = [y \in Range(sh[1]) |-> [x \in Range(sh[2]) |-> Num(1)]]
    /\ ds_array = RampCube
    /\ glt_array = <<>>
    /\ valid_glt = <<>>
    /\ out_ds = <<>>
    /\ exc = "none"
    /\ NoOtherState
    /\ runs = 0
    /\ GT \in Geotransforms
    /\ lon = <<>>
    /\ lat = <<>>
    /\ geo = "start"
    /\ NoMaskFile
    /\ good_wavelengths = [b \in Range(Bands) |-> 1]
    /\ out_xr = <<>>
    /\ ds_geo = <<>>
    /\ fp = ds_array

NextGeo ==
    \/ CreateLatLon
    \/ FillLatLon

SpecGeo == InitGeo /\ [][NextGeo]_vars

Rotated == GT[2] # 0 \/ GT[4] # 0

\* C9: with a non-zero row or column rotation in the geotransform, the lat/lon cell
\* never runs to its end with the coordinate vectors filled (it ends in a
\* configuration error instead).
C9_RotatedGeotransformFails ==
    Rotated => geo # "filled"

\* C10: the filled coordinate vectors hold pixel centres: twice lon[x] is
\* 2*GT[0] + GT[1] + 2*x*GT[1] for every x in [0, X), and twice lat[y] is
\* 2*GT[3] + GT[5] + 2*y*GT[5] for every y in [0, Y).
C10_PixelCentres ==
    geo = "filled" =>
        /\ \A x \in Range(Shape2(loc_glt_x)[2]) :
               2 * lon[x] = 2 * GT[0] + GT[1] + 2 * x * GT[1]
        /\ \A y \in Range(Shape2(loc_glt_x)[1]) :
               2 * lat[y] = 2 * GT[3] + GT[5] + 2 * y * GT[5]

\* The vectors were filled for a north-up grid of at least two rows and two columns,
\* with a positive pixel width and a negative pixel height.
C10_Witness ==
    /\ geo = "filled"
    /\ ~Rotated
    /\ GT[1] > 0
    /\ GT[5] < 0
    /\ Size(lon) >= 2
    /\ Size(lat) >= 2
    /\ lon[0] = GT[0] + Half(GT[1])
    /\ lon[1] > lon[0]
    /\ lat[1] < lat[0]

\* C11: once the lat/lon cell has created the coordinate vectors, lon has one entry
\* for each index of the GLT's second dimension and lat one entry for each index of
\* the GLT's first dimension.
C11_CoordinateLengths ==
    geo # "start" =>
        /\ DOMAIN lon = Range(Shape2(loc_glt_x)[2])
        /\ DOMAIN lat = Range(Shape2(loc_glt_x)[1])
        /\ Size(lon) = Shape2(loc_glt_y)[2]
        /\ Size(lat) = Shape2(loc_glt_y)[1]

\* The vectors were filled for a GLT with more rows than columns.
C11_Witness ==
    /\ geo = "filled"
    /\ Shape2(loc_glt_x)[1] > Shape2(loc_glt_x)[2]
    /\ Size(lat) > Size(lon)

-----------------------------------------------------------------------------
\* The output dataset

\* xr.Dataset: every dimension has one length over all variables that use it: lat,
\* lon and bands of reflectance, lat of lat, lon of lon, bands of the variables of wvl
DatasetDimsOkLatLon(data, la, lo, gw) ==
    /\ Shape3(data)[1] = Size(la)
    /\ Shape3(data)[2] = Size(lo)
DatasetDimsOk(data, la, lo, gw) ==
    /\ Shape3(data)[1] = Size(la)
    /\ Shape3(data)[2] = Size(lo)
    /\ Shape3(data)[3] = Size(gw)

\* coords = {'lat':..., 'lon':..., **wvl.variables}; data_vars = {'reflectance':
\* (['lat','lon','bands'], out_ds)}; out_xr = xr.Dataset(data_vars=data_vars,
\* coords=coords, attrs=ds.attrs)
BuildDatasetCell ==
    /\ out_ds # <<>>
    /\ geo # "start"
    /\ IF DatasetDimsOk(out_ds, lat, lon, good_wavelengths)
       THEN /\ out_xr' = [reflectance |-> out_ds, lat |-> lat, lon |-> lon,
                          good_wavelengths |-> good_wavelengths]
            /\ same_array' = TRUE
            /\ exc' = "none"
       ELSE /\ exc' = "ValueError"
            /\ UNCHANGED <<out_xr, same_array>>
    /\ UNCHANGED <<remapVars, geoVars, maskVars, ds_array, good_wavelengths, ds_geo, fp>>
    /\ UNCHANGED sessionVars

\* The band counts the sensor-band metadata of a granule may have
WvlCounts == (Bands - 1) .. (Bands + 1)

\* The kernel after ds, loc, wvl and GT were read from the granule
InitDataset ==
    /\ \E base \in SmallBases :
           /\ loc_glt_x = GltLayer(base, <<Num(0), Num(0)>>, <<0, 0>>, 1)
           /\ loc_glt_y = GltLayer(base, <<Num(0), Num(0)>>, <<0, 0>>, 2)
    /\ ds_array = RampCube
    /\ glt_array = <<>>
    /\ valid_glt = <<>>
    /\ out_ds = <<>>
    /\ exc = "none"
    /\ NoOtherState
    /\ runs = 0
    /\ GT \in {g \in Geotransforms :
                  /\ g[2] = 0 /\ g[4] = 0
                  /\ g[0] = 6 /\ g[3] = 10
                  /\ g[1] = 2 /\ g[5] = -2}
    /\ lon = <<>>
    /\ lat = <<>>
    /\ geo = "start"
    /\ NoMaskFile
    /\ \E n \in WvlCounts : good_wavelengths \in [Range(n) -> {0, 1}]
    /\ out_xr = <<>>
    /\ ds_geo = <<>>
    /\ fp = ds_array

NextDataset ==
    \/ StackCell
    \/ RemapCell
    \/ CreateLatLon
    \/ FillLatLon
    \/ BuildDatasetCell

SpecDataset == InitDataset /\ [][NextDataset]_vars

BandCountMismatch == Size(good_wavelengths) # Size(ds_array[0][0])

\* C20: when the number of entries of the sensor-band metadata differs from the
\* length of the raw cube's band axis, the cell that builds the output dataset ends
\* in an error and no dataset is ever built; a dataset that is built has as many
\* band entries as its reflectance has bands.
C20_BandCountMismatchFails ==
    [][/\ BandCountMismatch =>
              /\ out_xr' = <<>>
              /\ BuildDatasetCell => exc' = "ValueError"
       /\ out_xr' # <<>> =>
              Shape3(out_xr'.reflectance)[3] = Size(out_xr'.good_wavelengths)]_vars

\* With one band entry more than the raw cube has bands, the output array was
\* gathered, the coordinate vectors were filled, and building the dataset failed.
C20_Witness ==
    /\ Size(good_wavelengths) = Size(ds_array[0][0]) + 1
    /\ out_ds # <<>>
    /\ runs = 1
    /\ geo = "filled"
    /\ Shape3(out_ds)[1] = Size(lat)
    /\ Shape3(out_ds)[2] = Size(lon)
    /\ exc = "ValueError"
    /\ out_xr = <<>>

-----------------------------------------------------------------------------
\* emit_xarray with a quality mask built for another grid

\* Shapes of the quality masks a caller may hold
MaskShapes == (1 .. (Downtrack + 1)) \X (1 .. (Crosstrack + 1))

\* The kernel after the granule was named, with a quality mask that was built from
\* a mask file of some grid: no pixel, the first pixel or every pixel is flagged
InitUsage ==
    /\ \E base \in SmallBases, alt \in SmallAlts :
           /\ loc_glt_x = GltLayer(base, alt, <<0, 0>>, 1)
           /\ loc_glt_y = GltLayer(base, alt, <<0, 0>>, 2)
    /\ \E sh \in MaskShapes, f \in {"none", "first", "all"} :
           mask = [d \in Range(sh[1]) |-> [c \in Range(sh[2]) |->
                      f = "all" \/ (f = "first" /\ <<d, c>> = <<0, 0>>)]]
    /\ mask_layers = [d \in DOMAIN mask |-> [c \in DOMAIN mask[d] |->
                          [Zeros(MaskLayers) EXCEPT ![0] = IF mask[d][c] THEN 1 ELSE 0]]]
    /\ flags = {0}
    /\ band_flags = [d \in DOMAIN mask |-> [c \in DOMAIN mask[d] |-> AllBands(FALSE)]]
    /\ packed = Pack(band_flags)
    /\ bmask = <<>>
    /\ ds_array = RampCube
    /\ glt_array = <<>>
    /\ valid_glt = <<>>
    /\ out_ds = <<>>
    /\ exc = "none"
    /\ NoOtherState
    /\ runs = 0
    /\ GT = [i \in 0 .. 5 |-> 0]
    /\ lon = <<>>
    /\ lat = <<>>
    /\ geo = "start"
    /\ good_wavelengths = [b \in Range(Bands) |-> 1]
    /\ out_xr = <<>>
    /\ ds_geo = <<>>
    /\ fp = ds_array

NextUsage ==
    \/ EmitRawCell
    \/ EmitOrthoCell
    \/ EmitMaskedOrthoCell

SpecUsage == InitUsage /\ [][NextUsage]_vars

WrongShapedMask == mask # <<>> /\ Shape2(mask) # Shape2(fp)

\* C21: a call of emit_xarray with a quality mask whose shape is not the raw grid's
\* ends in a usage error and binds no dataset: the dataset in the kernel and the
\* granule's values are as before the call, and no dataset in the kernel ever
\* holds a NaN.
C21_WrongShapedMaskFails ==
    [][(WrongShapedMask /\ UNCHANGED maskVars /\ EmitMaskedOrthoCell) =>
          /\ exc' = "UsageError"
          /\ ds_geo' = ds_geo
          /\ fp' = fp
          /\ \A c \in (IF ds_geo' = <<>> THEN {} ELSE Cells(ds_geo')) :
                 \A b \in DOMAIN ds_geo'[c[1]][c[2]] : ~IsNan(ds_geo'[c[1]][c[2]][b])]_vars

\* The call failed for a mask of one row that flags every pixel of that row and has
\* as many columns as the raw grid, so that the mask could be broadcast over the
\* rows.
C21_Witness ==
    /\ exc = "UsageError"
    /\ Size(mask) = 1
    /\ Size(fp) > 1
    /\ Size(mask[0]) = Size(fp[0])
    /\ \A c \in DOMAIN mask[0] : mask[0][c]

-----------------------------------------------------------------------------
\* band_mask on a mask file whose packed array has another number of elements

\* Numbers of packed elements a mask file may have, and values of an element
ElemCounts == (PackedElems - 1) .. (PackedElems + 1)
ElemValues == {0, 1, Pow2(ElemBits) - 1}

\* The kernel after the mask file was named: the elements of one pixel differ from 0
InitBitfield ==
    /\ \E n \in ElemCounts, at \in Range(Downtrack) \X Range(Crosstrack) :
           \E alt \in [Range(n) -> ElemValues] :
               packed = OnePixel(Zeros(n), alt, at)
    /\ band_flags = OnePixel(AllBands(FALSE), AllBands(FALSE), <<0, 0>>)
    /\ mask_layers = OnePixel(Zeros(MaskLayers), Zeros(MaskLayers), <<0, 0>>)
    /\ flags = {}
    /\ mask = <<>>
    /\ bmask = <<>>
    /\ loc_glt_x = GltLayer(<<Num(1), Num(1)>>, <<Num(1), Num(1)>>, <<0, 0>>, 1)
    /\ loc_glt_y = GltLayer(<<Num(1), Num(1)>>, <<Num(1), Num(1)>>, <<0, 0>>, 2)
    /\ ds_array = RampCube
    /\ glt_array = <<>>
    /\ valid_glt = <<>>
    /\ out_ds = <<>>
    /\ exc = "none"
    /\ NoOtherState
    /\ runs = 0
    /\ GT = [i \in 0 .. 5 |-> 0]
    /\ lon = <<>>
    /\ lat = <<>>
    /\ geo = "start"
    /\ good_wavelengths = [b \in Range(Bands) |-> 1]
    /\ out_xr = <<>>
    /\ ds_geo = <<>>
    /\ fp = ds_array

NextBitfield ==
    \/ BandMaskCell
    \/ QualityMaskCell

SpecBitfield == InitBitfield /\ [][NextBitfield]_vars

ElemCountOf(pk) == Size(pk[0][0])

\* C22: band_mask on a packed array whose pixels have fewer elements than the band
\* count needs, or any number of elements other than the expected one, ends in a
\* data-corruption error and binds no band mask; a band mask that is bound has
\* exactly the band count and comes from an array of the expected element count.
C22_BitfieldLengthChecked ==
    [][(UNCHANGED <<mask, flags>> /\ BandMaskCell) =>
          IF ElemCountOf(packed) = PackedElems
          THEN /\ exc' = "none"
               /\ Shape3(bmask')[3] = SensorBands
          ELSE /\ exc' = "DataCorruptionError"
               /\ bmask' = <<>>]_vars

\* band_mask failed on a packed array with too few bits for the band count, whose
\* elements flag every bit they have at one pixel.
C22_Witness ==
    /\ exc = "DataCorruptionError"
    /\ bmask = <<>>
    /\ ElemCountOf(packed) * ElemBits < SensorBands
    /\ \E d \in Range(Downtrack), c \in Range(Crosstrack) :
           \A e \in DOMAIN packed[d][c] : packed[d][c][e] = Pow2(ElemBits) - 1

-----------------------------------------------------------------------------
\* Remapping a band subset

\* data[:, :, K]: the bands K names, in K's order (ds.sel(wavelengths=[...],
\* method='nearest') selects the nearest band of each wavelength listed)
SelBands(a, K) ==
    [y \in DOMAIN a |-> [x \in DOMAIN a[y] |-> [i \in DOMAIN K |-> a[y][x][K[i]]]]]

\* The lists of at most n band indices of a cube of n bands
BandLists(n) == UNION {[Range(k) -> Range(n)] : k \in 0 .. n}

\* The 'Build Output Dataset' cell on the GLT g and the raw array ds: the exception
\* it ends in and the out_ds it leaves
RemapOf(g, ds) ==
    LET out0 == AllocOut(g, ds)
        valid == ValidGlt(g)
        g1 == AdjustOneBased(g, valid)
    IN  IF Shape2(out0) = Shape2(valid) /\ IndexOk(g1, valid, ds)
        THEN [exc |-> "none", out |-> Gather(out0, g1, valid, ds)]
        ELSE [exc |-> "IndexError", out |-> out0]

\* The kernel after loc and ds_array were read from a granule whose GLT has one
\* cell that differs from the others
InitSubset ==
    /\ \E base \in SmallBases, alt \in SmallAlts,
          at \in Range(OrthoY) \X Range(OrthoX) :
           /\ loc_glt_x = GltLayer(base, alt, at, 1)
           /\ loc_glt_y = GltLayer(base, alt, at, 2)
    /\ ds_array \in RawCubes
    /\ glt_array = <<>>
    /\ valid_glt = <<>>
    /\ out_ds = <<>>
    /\ exc = "none"
    /\ NoOtherState
    /\ runs = 0
    /\ GT = [i \in 0 .. 5 |-> 0]
    /\ lon = <<>>
    /\ lat = <<>>
    /\ geo = "start"
    /\ NoMaskFile
    /\ good_wavelengths = [b \in Range(Bands) |-> 1]
    /\ out_xr = <<>>
    /\ ds_geo = <<>>
    /\ fp = ds_array

NextSubset ==
    \/ StackCell
    \/ RemapCell

SpecSubset == InitSubset /\ [][NextSubset]_vars

\* C23: for every list K of band indices, the remap of the raw cube restricted to
\* the bands K ends as the remap of the full cube ends (in no error, or in the same
\* error) and leaves exactly the full remap's out_ds restricted to the bands K.
C23_BandSubsetCommutes ==
    [][(RemapStep /\ glt_array # <<>>) =>
          \A K \in BandLists(Size(ds_array[0][0])) :
              LET sub == RemapOf(glt_array, SelBands(ds_array, K))
              IN  /\ sub.exc = exc'
                  /\ sub.out = SelBands(out_ds', K)]_vars

\* A remap ran to its end on a GLT with a valid cell and a no-data cell and a raw
\* cube whose bands differ at the pixel gathered.
C23_Witness ==
    /\ runs > 0
    /\ exc = "none"
    /\ \E c \in Cells(valid_glt) : valid_glt[c[1]][c[2]]
    /\ \E c \in Cells(valid_glt) : ~valid_glt[c[1]][c[2]]
    /\ \E c \in Cells(out_ds) :
           /\ valid_glt[c[1]][c[2]]
           /\ out_ds[c[1]][c[2]][0] # out_ds[c[1]][c[2]][Size(out_ds[c[1]][c[2]]) - 1]

-----------------------------------------------------------------------------
\* Two kernels that each run the stacking cell and the 'Build Output Dataset'
\* cell, statement by statement, on the names of their own

KernelIds == {1, 2}

\* The next statement of the kernel k, on k's names
RunStatement(k, ub) ==
    CASE k.pc = "stack" ->
             [k EXCEPT !.glt_array = StackGlt(k.loc_glt_x, k.loc_glt_y, ub),
                       !.pc = "alloc"]
      [] k.pc = "alloc" ->
             [k EXCEPT !.out_ds = AllocOut(k.glt_array, k.ds_array), !.pc = "valid"]
      [] k.pc = "valid" ->
             [k EXCEPT !.valid_glt = ValidGlt(k.glt_array), !.pc = "adjust"]
      [] k.pc = "adjust" ->
             [k EXCEPT !.glt_array = AdjustOneBased(k.glt_array, k.valid_glt),
                       !.pc = "gather"]
      [] k.pc = "gather" ->
             IF /\ Shape2(k.out_ds) = Shape2(k.valid_glt)
                /\ IndexOk(k.glt_array, k.valid_glt, k.ds_array)
             THEN [k EXCEPT !.out_ds = Gather(k.out_ds, k.glt_array, k.valid_glt,
                                              k.ds_array),
                            !.exc = "none", !.pc = "done"]
             ELSE [k EXCEPT !.exc = "IndexError", !.pc = "done"]

\* A statement of kernel i: it reads and writes the names of kernel i
StepKernelsOneGlt(ks, i, ub) ==
    LET k == RunStatement(ks[i], ub)
    IN  [j \in DOMAIN ks |->
            IF j = i THEN k ELSE [ks[j] EXCEPT !.glt_array = k.glt_array]]
StepKernels(ks, i, ub) == [ks EXCEPT ![i] = RunStatement(ks[i], ub)]

KernelStatement ==
    /\ kernels # <<>>
    /\ \E i \in DOMAIN kernels, ub \in {IntMin, IntMax} :
           /\ kernels[i].pc # "done"
           /\ kernels' = StepKernels(kernels, i, ub)
    /\ UNCHANGED <<remapVars, geoVars, maskVars, bandVars, ds_array, exc, same_array>>
    /\ UNCHANGED <<dst, download, points_stream, click_dmap>>

\* A kernel after loc and ds_array were read from its granule
Kernel(gx, gy, ds) ==
    [loc_glt_x |-> gx, loc_glt_y |-> gy, ds_array |-> ds,
     glt_array |-> <<>>, valid_glt |-> <<>>, out_ds |-> <<>>,
     exc |-> "none", pc |-> "stack"]

\* Two kernels, each with a granule of its own
InitKernels ==
    /\ \E base \in SmallBases, alt \in SmallAlts, other \in SmallAlts :
           kernels = [i \in KernelIds |->
               IF i = 1
               THEN Kernel(GltLayer(base, alt, <<0, 0>>, 1),
                           GltLayer(base, alt, <<0, 0>>, 2), RampCube)
               ELSE Kernel(GltLayer(<<Num(1), Num(Downtrack)>>, other, <<0, 0>>, 1),
                           GltLayer(<<Num(1), Num(Downtrack)>>, other, <<0, 0>>, 2),
                           [RampCube EXCEPT ![0][0][0] = fill_value])]
    /\ same_array = FALSE
    /\ dst = <<[exists |-> TRUE, chunks |-> Chunks]>>
    /\ download = [pc |-> "idle", url |-> 1, skipped |-> {}, gets |-> <<0>>]
    /\ points_stream = <<>>
    /\ click_dmap = <<>>
    /\ loc_glt_x = GltLayer(<<Num(1), Num(1)>>, <<Num(1), Num(1)>>, <<0, 0>>, 1)
    /\ loc_glt_y = GltLayer(<<Num(1), Num(1)>>, <<Num(1), Num(1)>>, <<0, 0>>, 2)
    /\ ds_array = RampCube
    /\ glt_array = <<>>
    /\ valid_glt = <<>>
    /\ out_ds = <<>>
    /\ exc = "none"
    /\ runs = 0
    /\ GT = [i \in 0 .. 5 |-> 0]
    /\ lon = <<>>
    /\ lat = <<>>
    /\ geo = "start"
    /\ NoMaskFile
    /\ good_wavelengths = [b \in Range(Bands) |-> 1]
    /\ out_xr = <<>>
    /\ ds_geo = <<>>
    /\ fp = ds_array

NextKernels == KernelStatement

SpecKernels == InitKernels /\ [][NextKernels]_vars

\* What the kernel k arrives at when it runs alone
AloneResults(k) ==
    {RemapOf(StackGlt(k.loc_glt_x, k.loc_glt_y, ub), k.ds_array) :
        ub \in {IntMin, IntMax}}

\* C24: of two kernels that run the remap statement by statement in any
\* interleaving, each on a raw cube, a GLT and an output array of its own, a
\* statement of one leaves every name of the other as it was, and each kernel
\* arrives at exactly the out_ds (and the outcome) it arrives at when it runs alone.
C24_IndependentInvocations ==
    [][\A i \in DOMAIN kernels' :
          /\ kernels'[i] # kernels[i] =>
                 \A j \in DOMAIN kernels' \ {i} : kernels'[j] = kernels[j]
          /\ kernels'[i].pc = "done" =>
                 \E r \in AloneResults(kernels'[i]) :
                     /\ kernels'[i].exc = r.exc
                     /\ kernels'[i].out_ds = r.out]_vars

\* Both kernels ran to their ends without an error, each gathered into a valid
\* cell, and their outputs differ.
C24_Witness ==
    /\ kernels # <<>>
    /\ \A i \in DOMAIN kernels : kernels[i].pc = "done" /\ kernels[i].exc = "none"
    /\ kernels[1].out_ds # kernels[2].out_ds
    /\ \E c \in Cells(kernels[1].valid_glt) : kernels[1].valid_glt[c[1]][c[2]]
    /\ \E c \in Cells(kernels[2].valid_glt) : kernels[2].valid_glt[c[1]][c[2]]

-----------------------------------------------------------------------------
\* Masking the bad bands before the remap, and after it

\* The masking cell of the raw dataset, the stacking cell and the remap cell
NextOrder ==
    \/ MaskRawBands
    \/ StackCell
    \/ RemapCell

SpecOrder == InitMask /\ [][NextOrder]_vars

\* ds_array is the granule's cube with the bad bands set to NaN
RawMasked == ds_array = BlankBands(fp, good_wavelengths)

\* The remap of the granule's cube as the file has it, its bad bands set to NaN
\* afterwards
RemapThenMask == BlankBands(RemapOf(glt_array, fp).out, good_wavelengths)

\* C26: a remap of the raw cube whose bad bands were set to NaN leaves the same
\* array, at every cell and band, as the remap of the unmasked cube followed by
\* setting the bad bands to NaN.
C26_MaskRemapOrder ==
    [][(RemapDone /\ RawMasked) => out_ds' = RemapThenMask]_vars

\* C26 as amended: the two orders leave the same values in every band of every cell
\* with a valid GLT pair; in a no-data cell the mask-then-remap order leaves the
\* fill value in every band, and the remap-then-mask order leaves NaN in the bad
\* bands and the fill value in the others.
C26_OrdersAgreeOnValidCells ==
    [][(RemapDone /\ RawMasked) =>
          \A c \in Cells(out_ds') :
              IF valid_glt'[c[1]][c[2]]
              THEN out_ds'[c[1]][c[2]] = RemapThenMask[c[1]][c[2]]
              ELSE /\ out_ds'[c[1]][c[2]] = FillVector(ds_array)
                   /\ RemapThenMask[c[1]][c[2]] =
                          [b \in DOMAIN good_wavelengths |->
                              IF good_wavelengths[b] = 0 THEN np_nan ELSE fill_value]]_vars

\* A remap ran to its end on the cube whose bad bands were set to NaN, with a bad
\* band and a good one, over a GLT with a valid cell and a no-data cell.
C26_Witness ==
    /\ runs > 0
    /\ exc = "none"
    /\ RawMasked
    /\ \E b \in DOMAIN good_wavelengths : good_wavelengths[b] = 0
    /\ \E b \in DOMAIN good_wavelengths : good_wavelengths[b] = 1
    /\ \E c, e \in Cells(out_ds) :
           /\ valid_glt[c[1]][c[2]]
           /\ \E b \in DOMAIN out_ds[c[1]][c[2]] : IsNan(out_ds[c[1]][c[2]][b])
           /\ ~valid_glt[e[1]][e[2]]
           /\ out_ds[e[1]][e[2]] = FillVector(ds_array)

-----------------------------------------------------------------------------
\* Masking the fill values of the dataset built from out_ds

\* a[a == fill_value] = np.nan (NaN equals nothing, so it stays)
FillToNanAll(a) ==
    [y \in DOMAIN a |-> [x \in DOMAIN a[y] |-> [b \in DOMAIN a[y][x] |-> np_nan]]]
FillToNan(a) ==
    [y \in DOMAIN a |-> [x \in DOMAIN a[y] |-> [b \in DOMAIN a[y][x] |->
        IF a[y][x][b] = fill_value THEN np_nan ELSE a[y][x][b]]]]

\* out_xr['reflectance'].data[out_xr['reflectance'].data == fill_value] = np.nan:
\* the dataset holds the array it was built from, so the array out_ds names is
\* written too for as long as the remap cell has not bound out_ds to a new one
FillToNanCell ==
    /\ out_xr # <<>>
    /\ out_xr' = [out_xr EXCEPT !.reflectance = FillToNan(@)]
    /\ out_ds' = IF same_array THEN FillToNan(out_ds) ELSE out_ds
    /\ exc' = "none"
    /\ UNCHANGED <<loc_glt_x, loc_glt_y, glt_array, valid_glt, runs, ds_array>>
    /\ UNCHANGED <<geoVars, maskVars, good_wavelengths, ds_geo, fp>>
    /\ UNCHANGED <<same_array, sessionVars>>

\* Raw cubes: a ramp, the ramp with the fill value at one place, the ramp with a NaN
\* at another
FillCubes == RawCubes \cup {[RampCube EXCEPT ![0][1][0] = np_nan]}

\* The kernel after ds, loc, wvl and GT were read from a granule whose GLT has a
\* no-data cell
InitFill ==
    /\ \E base \in SmallBases :
           /\ loc_glt_x = GltLayer(base, <<Num(0), Num(0)>>, <<0, 0>>, 1)
           /\ loc_glt_y = GltLayer(base, <<Num(0), Num(0)>>, <<0, 0>>, 2)
    /\ ds_array \in FillCubes
    /\ glt_array = <<>>
    /\ valid_glt = <<>>
    /\ out_ds = <<>>
    /\ exc = "none"
    /\ NoOtherState
    /\ runs = 0
    /\ GT \in {g \in Geotransforms :
                  /\ g[2] = 0 /\ g[4] = 0
                  /\ g[0] = 6 /\ g[3] = 10
                  /\ g[1] = 2 /\ g[5] = -2}
    /\ lon = <<>>
    /\ lat = <<>>
    /\ geo = "start"
    /\ NoMaskFile
    /\ good_wavelengths = [b \in Range(Bands) |-> 1]
    /\ out_xr = <<>>
    /\ ds_geo = <<>>
    /\ fp = ds_array

NextFill ==
    \/ StackCell
    \/ RemapCell
    \/ CreateLatLon
    \/ FillLatLon
    \/ BuildDatasetCell
    \/ FillToNanCell

SpecFill == InitFill /\ [][NextFill]_vars

\* The fill step runs on the dataset built from the out_ds of the last remap, which
\* ran to its end: glt_array and valid_glt are as that remap left them
FillStepAfterRemap ==
    /\ same_array
    /\ runs > 0
    /\ IndexOk(glt_array, valid_glt, ds_array)
    /\ UNCHANGED <<glt_array, lon, lat, geo>>
    /\ FillToNanCell

\* C27: after the fill step, every band of a cell with a valid GLT pair holds the
\* raw value gathered for it, whatever that value is (the fill value included), and
\* a value is NaN only in a no-data cell or where the gathered raw value was NaN.
C27_FillToNanKeepsGathered ==
    [][FillStepAfterRemap =>
          \A c \in Cells(valid_glt) :
              \A b \in DOMAIN out_xr'.reflectance[c[1]][c[2]] :
                  LET v == out_xr'.reflectance[c[1]][c[2]][b]
                      raw == Pixel(glt_array, ds_array, c[1], c[2])[b]
                  IN  /\ valid_glt[c[1]][c[2]] => v = raw
                      /\ IsNan(v) => (~valid_glt[c[1]][c[2]] \/ IsNan(raw))]_vars

\* C27 as amended: after the fill step, every band of a no-data cell is NaN, and a
\* band of a cell with a valid GLT pair holds the raw value gathered for it unless
\* that value equals fill_value, in which case it is NaN as well.
C27_FillToNanByValue ==
    [][FillStepAfterRemap =>
          \A c \in Cells(valid_glt) :
              \A b \in DOMAIN out_xr'.reflectance[c[1]][c[2]] :
                  LET v == out_xr'.reflectance[c[1]][c[2]][b]
                      raw == Pixel(glt_array, ds_array, c[1], c[2])[b]
                  IN  IF valid_glt[c[1]][c[2]]
                      THEN v = IF raw = fill_value THEN np_nan ELSE raw
                      ELSE IsNan(v)]_vars

\* The fill step ran on a dataset with a no-data cell, now NaN, beside a valid cell
\* that gathered a raw value equal to fill_value, now NaN too, and kept its other
\* band.
C27_Witness ==
    /\ out_xr # <<>>
    /\ same_array
    /\ runs > 0
    /\ \E c, e \in Cells(valid_glt) :
           /\ ~valid_glt[c[1]][c[2]]
           /\ \A b \in DOMAIN out_xr.reflectance[c[1]][c[2]] :
                  IsNan(out_xr.reflectance[c[1]][c[2]][b])
           /\ valid_glt[e[1]][e[2]]
           /\ IndexOk(glt_array, valid_glt, ds_array)
           /\ Pixel(glt_array, ds_array, e[1], e[2])[0] = fill_value
           /\ IsNan(out_xr.reflectance[e[1]][e[2]][0])
           /\ out_xr.reflectance[e[1]][e[2]][1] = Pixel(glt_array, ds_array, e[1], e[2])[1]

-----------------------------------------------------------------------------
\* The download cell: for url in urls: if not os.path.isfile(fp): download

\* The most urls the cell loops over (the reflectance file; the reflectance and the
\* mask file)
Urls == 2

AbsentFile == [exists |-> FALSE, chunks |-> 0]
WholeFile == [exists |-> TRUE, chunks |-> Chunks]

\* The download cell touches none of the arrays of the kernel
DownloadFrame ==
    /\ UNCHANGED <<remapVars, geoVars, maskVars, bandVars, ds_array>>
    /\ UNCHANGED <<same_array, kernels, points_stream, click_dmap>>

\* The cell starts: its loop stands before the first url
RunDownloadCell ==
    /\ download.pc = "idle"
    /\ download' = [download EXCEPT !.pc = "test", !.url = 1, !.skipped = {}]
    /\ exc' = "none"
    /\ UNCHANGED dst
    /\ DownloadFrame

\* if not os.path.isfile(fp): with fs.get(url, stream=True) as src:
\*     with open(fp, 'wb') as dst: -- the file exists, empty, once it is opened;
\* a file that is there is skipped; after the last url the cell ends
TestFile ==
    /\ download.pc = "test"
    /\ IF download.url \notin DOMAIN dst
       THEN /\ download' = [download EXCEPT !.pc = "idle"]
            /\ UNCHANGED dst
       ELSE IF dst[download.url].exists
       THEN /\ download' = [download EXCEPT !.url = @ + 1,
                                            !.skipped = @ \cup {download.url}]
            /\ UNCHANGED dst
       ELSE /\ download' = [download EXCEPT !.pc = "writing",
                                            !.gets[download.url] = @ + 1]
            /\ dst' = [dst EXCEPT ![download.url] = [exists |-> TRUE, chunks |-> 0]]
    /\ UNCHANGED exc
    /\ DownloadFrame

\* for chunk in src.iter_content(chunk_size=64*1024*1024): dst.write(chunk)
WriteChunk ==
    /\ download.pc = "writing"
    /\ dst[download.url].chunks < Chunks
    /\ dst' = [dst EXCEPT ![download.url].chunks = @ + 1]
    /\ UNCHANGED <<download, exc>>
    /\ DownloadFrame

\* The stream is exhausted: the file is closed and the loop goes on
CloseFile ==
    /\ download.pc = "writing"
    /\ dst[download.url].chunks = Chunks
    /\ download' = [download EXCEPT !.pc = "test", !.url = @ + 1]
    /\ UNCHANGED <<dst, exc>>
    /\ DownloadFrame

\* The kernel is interrupted, or the connection breaks, while the cell runs: the
\* with statements close the file with the chunks written so far
InterruptDownload ==
    /\ download.pc # "idle"
    /\ download' = [download EXCEPT !.pc = "idle"]
    /\ exc' = "KeyboardInterrupt"
    /\ DownloadFrame
    /\ UNCHANGED dst

\* The kernel before the download cell ran: each file is absent, or on disk whole
\* from an earlier session
InitDownload ==
    /\ \E n \in 1 .. Urls : dst \in [1 .. n -> {AbsentFile, WholeFile}]
    /\ download = [pc |-> "idle", url |-> 1, skipped |-> {},
                   gets |-> [f \in DOMAIN dst |-> 0]]
    /\ same_array = FALSE
    /\ kernels = <<>>
    /\ points_stream = <<>>
    /\ click_dmap = <<>>
    /\ loc_glt_x = GltLayer(<<Num(1), Num(1)>>, <<Num(1), Num(1)>>, <<0, 0>>, 1)
    /\ loc_glt_y = GltLayer(<<Num(1), Num(1)>>, <<Num(1), Num(1)>>, <<0, 0>>, 2)
    /\ ds_array = RampCube
    /\ glt_array = <<>>
    /\ valid_glt = <<>>
    /\ out_ds = <<>>
    /\ exc = "none"
    /\ runs = 0
    /\ GT = [i \in 0 .. 5 |-> 0]
    /\ lon = <<>>
    /\ lat = <<>>
    /\ geo = "start"
    /\ NoMaskFile
    /\ good_wavelengths = [b \in Range(Bands) |-> 1]
    /\ out_xr = <<>>
    /\ ds_geo = <<>>
    /\ fp = ds_array

NextDownload ==
    \/ RunDownloadCell
    \/ TestFile
    \/ WriteChunk
    \/ CloseFile
    \/ InterruptDownload

SpecDownload == InitDownload /\ [][NextDownload]_vars

\* C28: across all runs of the download cell, interrupted ones included, a file the
\* cell found present and skipped holds the complete granule content, and no file
\* was downloaded more than once.
C28_SkippedFileIsComplete ==
    /\ \A f \in download.skipped : dst[f] = WholeFile
    /\ \A f \in DOMAIN download.gets : download.gets[f] <= 1

-----------------------------------------------------------------------------
\* The point-draw stream and click_spectra

\* The most points the model's stream delivers (POINT_LIMIT in the notebook)
MaxPoints == 2

\* emit_tools: longitude and latitude of the dataset emit_xarray returns are the
\* pixel centres of its columns and rows
longitude(cube) == [x \in DOMAIN cube[0] |-> PixelCentre(GT[0], GT[1], x)]
latitude(cube) == [y \in DOMAIN cube |-> PixelCentre(GT[3], GT[5], y)]

Dist(a, b) == IF a < b THEN b - a ELSE a - b

\* .sel(..., method="nearest") along one axis: the index of the nearest coordinate
Nearest(axis, v) ==
    CHOOSE i \in DOMAIN axis : \A j \in DOMAIN axis : Dist(axis[i], v) <= Dist(axis[j], v)

\* What the stream hands to click_spectra: None (<<>>), or the columns x, y and id,
\* of one length, of the points drawn; a point lies on a pixel centre of the first
\* or the last column, or one pixel before the first, and likewise for the rows
NoPoints == [x |-> <<>>, y |-> <<>>, id |-> <<>>]
ClickLons == {GT[0] + Half(GT[1]) + k * GT[1] : k \in {-1, 0, OrthoX - 1}}
ClickLats == {GT[3] + Half(GT[5]) + k * GT[5] : k \in {-1, 0}}
StreamData ==
    {<<>>} \cup
    UNION {{[x |-> xs, y |-> ys, id |-> [i \in Range(n) |-> 0]] :
               xs \in [Range(n) -> ClickLons], ys \in [Range(n) -> ClickLats]} :
           n \in 0 .. MaxPoints}

\* data is None or not any(len(d) for d in data.values())
IsEmptyData(data) ==
    \/ data = <<>>
    \/ \A col \in DOMAIN data : Size(data[col]) = 0

\* click_spectra(data), with the names of the kernel it reads: the exception it ends
\* in, the spectra of the overlay it returns and the stream's data as it leaves it.
\* With no point, the arguments of coordinates.append(clicked_points[0][0],
\* clicked_points[1][0]) are evaluated first, and clicked_points is no name of the
\* notebook.
click_spectra_no_plots(data, cube) ==
    IF IsEmptyData(data)
    THEN [exc |-> "none", plots |-> <<>>, data |-> data, returned |-> TRUE]
    ELSE IF cube = <<>>
    THEN [exc |-> "NameError", plots |-> <<>>, data |-> data, returned |-> FALSE]
    ELSE [exc |-> "none",
          plots |-> [i \in DOMAIN data.x |->
                        cube[Nearest(latitude(cube), data.y[i])]
                            [Nearest(longitude(cube), data.x[i])]],
          data |-> [data EXCEPT !.id = [i \in DOMAIN data.x |-> i]],
          returned |-> TRUE]
click_spectra(data, cube) ==
    IF IsEmptyData(data)
    THEN [exc |-> "NameError", plots |-> <<>>, data |-> data, returned |-> FALSE]
    ELSE IF cube = <<>>
    THEN [exc |-> "NameError", plots |-> <<>>, data |-> data, returned |-> FALSE]
    ELSE [exc |-> "none",
          plots |-> [i \in DOMAIN data.x |->
                        cube[Nearest(latitude(cube), data.y[i])]
                            [Nearest(longitude(cube), data.x[i])]],
          data |-> [data EXCEPT !.id = [i \in DOMAIN data.x |-> i]],
          returned |-> TRUE]

\* click_dmap = hv.DynamicMap(click_spectra, streams=[points_stream]): an event of
\* the stream calls click_spectra with the stream's data; the map shows what the
\* call returns
StreamEvent ==
    /\ \E data \in StreamData :
           LET r == click_spectra(data, ds_geo)
           IN  /\ exc' = r.exc
               /\ points_stream' = r.data
               /\ click_dmap' = IF r.returned THEN r.plots ELSE click_dmap
    /\ UNCHANGED <<remapVars, geoVars, maskVars, bandVars, ds_array>>
    /\ UNCHANGED <<same_array, kernels, dst, download>>

\* The kernel after fp was named, before ds_geo is read and a point is drawn
InitClick ==
    /\ \E base \in {<<Num(1), Num(1)>>, <<Num(Crosstrack), Num(Downtrack)>>} :
           /\ loc_glt_x = GltLayer(base, <<Num(2), Num(1)>>, <<0, 0>>, 1)
           /\ loc_glt_y = GltLayer(base, <<Num(2), Num(1)>>, <<0, 0>>, 2)
    /\ ds_array = RampCube
    /\ glt_array = <<>>
    /\ valid_glt = <<>>
    /\ out_ds = <<>>
    /\ exc = "none"
    /\ NoOtherState
    /\ runs = 0
    /\ GT \in {g \in Geotransforms :
                  /\ g[2] = 0 /\ g[4] = 0
                  /\ g[0] = 6 /\ g[3] = 10
                  /\ g[1] = 2 /\ g[5] = -2}
    /\ lon = <<>>
    /\ lat = <<>>
    /\ geo = "start"
    /\ NoMaskFile
    /\ good_wavelengths = [b \in Range(Bands) |-> 1]
    /\ out_xr = <<>>
    /\ ds_geo = <<>>
    /\ fp = ds_array

NextClick ==
    \/ EmitOrthoCell
    \/ StreamEvent

SpecClick == InitClick /\ [][NextClick]_vars

\* C29: a call of click_spectra with data that is None, or whose columns are all
\* empty, returns no overlay (the map keeps what it showed) and ends in an error:
\* the NameError of clicked_points, or the TypeError of list.append with two
\* arguments.
C29_NoPointsIsAnError ==
    [][(IsEmptyData(points_stream') /\ UNCHANGED ds_geo /\ StreamEvent) =>
          /\ exc' \in {"NameError", "TypeError"}
          /\ click_dmap' = click_dmap]_vars

\* click_spectra failed on columns that are all empty while the map shows the
\* overlay of an earlier call with points.
C29_Witness ==
    /\ exc = "NameError"
    /\ points_stream = NoPoints
    /\ ds_geo # <<>>
    /\ click_dmap # <<>>
    /\ Size(click_dmap) = MaxPoints

-----------------------------------------------------------------------------
\* The scope of the one-based adjustment

\* Both entries of the pair differ from the no-data sentinel
BothNonZero(pair) == pair[0] # GLT_NODATA_VALUE /\ pair[1] # GLT_NODATA_VALUE

\* C30: a run of the remap cell subtracts 1 from both entries of every GLT cell
\* whose two entries are non-zero, and from no other: a cell with a zero entry keeps
\* its pair, so that no 0 becomes -1, and its output cell holds the fill value in
\* every band, so that no raw pixel was gathered for it.
C30_AdjustmentScope ==
    [][(RemapStep /\ glt_array # <<>>) =>
          \A c \in Cells(glt_array) :
              LET before == glt_array[c[1]][c[2]]
                  after == glt_array'[c[1]][c[2]]
              IN  IF BothNonZero(before)
                  THEN /\ after[0] = Wrap(before[0] - 1)
                       /\ after[1] = Wrap(before[1] - 1)
                  ELSE /\ after = before
                       /\ \A b \in DOMAIN out_ds'[c[1]][c[2]] :
                              out_ds'[c[1]][c[2]][b] = fill_value]_vars

\* A remap ran to its end over a GLT with a cell of which one entry only is zero,
\* whose pair is as the granule has it and whose output cell holds the fill value,
\* beside a cell that holds a raw pixel.
C30_Witness ==
    /\ runs = 1
    /\ exc = "none"
    /\ \E d, e \in Cells(glt_array) :
           /\ (glt_array[d[1]][d[2]][0] = 0) # (glt_array[d[1]][d[2]][1] = 0)
           /\ loc_glt_x[d[1]][d[2]] = Num(glt_array[d[1]][d[2]][0])
           /\ loc_glt_y[d[1]][d[2]] = Num(glt_array[d[1]][d[2]][1])
           /\ out_ds[d[1]][d[2]] = FillVector(ds_array)
           /\ valid_glt[e[1]][e[2]]
           /\ out_ds[e[1]][e[2]] # FillVector(ds_array)

=============================================================================
